---- MODULE Spec2Model ----
(***************************************************************************)
(* libaitfoaq: the quiz-show game state machine (libaitfoaq/src/lib.rs)    *)
(* and the single-writer actor of the server (server/src/state.rs) with    *)
(* its journal, command queue (mpsc), snapshot channel (watch) and the     *)
(* connection tasks that use them (server/src/communication.rs).           *)
(*                                                                         *)
(* Rust vectors are 0-indexed; sequences here are 1-indexed, so a handle h *)
(* addresses element h + 1.  Option<T> is a sequence of length 0 or 1.      *)
(* The text fields of Clue and Category are never read by a transition and *)
(* are left out; Contestant.name and Contestant.name_hint are kept.        *)
(***************************************************************************)
EXTENDS Integers, Sequences, FiniteSets, TLC

(* ------------------------------ bounds --------------------------------- *)
\* at most this many contestants register (guard of the Connect inputs)
MaxContestants == 2
\* boards offered to LoadBoard have at most this many categories / clues
MaxCats == 1
MaxClues == 2
\* scores explored stay within -MaxScore .. MaxScore
MaxScore == 1

(* ------------------------------ data model ----------------------------- *)
None == <<>>
Some(x) == <<x>>

\* state.rs Clue: points, can_wager, exclusive, solved
MkClue(points, can_wager, exclusive, solved) ==
  [points |-> points, can_wager |-> can_wager, exclusive |-> exclusive, solved |-> solved]

\* the clue attributes offered to LoadBoard: a plain clue, a daily double
\* (can_wager and exclusive, as in tests::get_test_board) and a clue that is
\* already marked solved in the loaded file
ClueKinds ==
  { MkClue(1, FALSE, FALSE, FALSE),
    MkClue(1, TRUE, TRUE, FALSE),
    MkClue(1, FALSE, FALSE, TRUE) }

\* A board is a sequence of categories, a category a sequence of clues.
\* Rectangular boards of ncats x nclues whose last clue of every category is
\* of kind k and whose other clues are plain.
MkBoard(ncats, nclues, k) ==
  [c \in 1..ncats |->
     [q \in 1..nclues |-> IF q = nclues THEN k ELSE MkClue(1, FALSE, FALSE, FALSE)]]

Boards == { MkBoard(nc, nq, k) : nc \in 0..MaxCats, nq \in 0..MaxClues, k \in ClueKinds }

\* handles a client can name; MaxContestants, MaxCats and MaxClues themselves
\* never index anything: they are the dangling handles
Handles == 0..MaxContestants
ClueHandles == (0..MaxCats) \X (0..MaxClues)

\* the moderator's out-of-band commands (reconnect, disconnect, name, award,
\* revoke) are explored for the first contestant and for the dangling handle
AdminHandles == {0, MaxContestants}

\* the value random_contestant folds out of the heap addresses of the names
Entropy == 0..(MaxContestants - 1)

(* state.rs GamePhase *)
Preparing == [tag |-> "Preparing"]
Connecting == [tag |-> "Connecting"]
Picking(contestant) == [tag |-> "Picking", contestant |-> contestant]
Waging(clue, contestant) == [tag |-> "Waging", clue |-> clue, contestant |-> contestant]
Clue(clue, exclusive) == [tag |-> "Clue", clue |-> clue, exclusive |-> exclusive]
Buzzing(clue) == [tag |-> "Buzzing", clue |-> clue]
Buzzed(clue, contestant) == [tag |-> "Buzzed", clue |-> clue, contestant |-> contestant]
Resolution(clue, contestant, show_hint) ==
  [tag |-> "Resolution", clue |-> clue, contestant |-> contestant, show_hint |-> show_hint]
Score == [tag |-> "Score"]

\* Game::new
NewGame == [phase |-> Preparing, board |-> <<>>, contestants |-> <<>>]

(* results of Game::apply: Ok carries the game after the command, an Err the
   game as the handler left it, a panic (todo!, a division by zero) aborts *)
Ok(g) == [res |-> "Ok", game |-> g]
Err(e, g) == [res |-> e, game |-> g]
WrongPhase(g0, g) == [res |-> "WrongPhase", is |-> g0.phase, game |-> g]
Panic(g) == [res |-> "Panic", game |-> g]

(* ------------------------------ Board ---------------------------------- *)
\* Board::get / Board::get_mut succeed
ClueExists(board, clue) ==
  /\ clue[1] < Len(board)
  /\ clue[2] < Len(board[clue[1] + 1])

BoardGet(board, clue) == board[clue[1] + 1][clue[2] + 1]

\* Board::mark_solved, for a clue that exists
MarkSolved(board, clue) ==
  [board EXCEPT ![clue[1] + 1][clue[2] + 1].solved = TRUE]

\* the test of next_or_end: every clue of every category is solved
AllSolved(board) ==
  \A c \in 1..Len(board) : \A q \in 1..Len(board[c]) : board[c][q].solved

ContestantExists(g, index) == index < Len(g.contestants)

(* ------------------------------ Game ----------------------------------- *)
\* the flags left as the journal's commands set them
mark_no_contestant(g) == g

\* Game::mark_all_contestants_as_disconnected
mark_all_contestants_as_disconnected(g) ==
  [g EXCEPT !.contestants =
     [i \in 1..Len(g.contestants) |-> [g.contestants[i] EXCEPT !.connected = FALSE]]]

ClearIndicate(contestants) ==
  [i \in 1..Len(contestants) |-> [contestants[i] EXCEPT !.indicate = FALSE]]

\* Game::random_contestant: random % self.contestants.len(), for a non-empty
\* registry (an empty one is a division by zero, handled by the callers here)
random_contestant(g, rnd) == rnd % Len(g.contestants)

\* a board that can be loaded at any time
load_board_any_time(g, board) == Ok([g EXCEPT !.board = board])

\* a board that is loaded only once
load_board_once(g, board) ==
  IF g.phase.tag # "Preparing" THEN WrongPhase(g, g)
  ELSE IF g.board # <<>> THEN Ok(g)
  ELSE Ok([g EXCEPT !.board = board])

load_board(g, board) ==
  IF g.phase.tag # "Preparing" THEN WrongPhase(g, g)
  ELSE Ok([g EXCEPT !.board = board])

\* a lobby that opens from any phase
open_lobby_unchecked(g) == Ok([g EXCEPT !.phase = Connecting])

open_lobby(g) ==
  IF g.phase.tag # "Preparing" THEN WrongPhase(g, g)
  ELSE Ok([g EXCEPT !.phase = Connecting])

\* the new contestant put in front of the others
connect_contestant_front(g, hint) ==
  IF g.phase.tag # "Connecting" THEN WrongPhase(g, g)
  ELSE Ok([g EXCEPT !.contestants =
             <<[name |-> None, name_hint |-> hint, points |-> 0,
                indicate |-> FALSE, connected |-> TRUE]>> \o @])

connect_contestant(g, hint) ==
  IF g.phase.tag # "Connecting" THEN WrongPhase(g, g)
  ELSE Ok([g EXCEPT !.contestants =
             Append(@, [name |-> None, name_hint |-> hint, points |-> 0,
                        indicate |-> FALSE, connected |-> TRUE])])

\* a reconnection that is refused while a clue is being answered
reconnect_contestant_late(g, index) ==
  IF ~ContestantExists(g, index) THEN Err("ContestantNotFound", g)
  ELSE IF g.phase.tag = "Buzzed" THEN WrongPhase(g, g)
  ELSE Ok([g EXCEPT !.contestants[index + 1].connected = TRUE])

reconnect_contestant(g, index) ==
  IF ~ContestantExists(g, index) THEN Err("ContestantNotFound", g)
  ELSE Ok([g EXCEPT !.contestants[index + 1].connected = TRUE])

disconnect_contestant(g, index) ==
  IF ~ContestantExists(g, index) THEN Err("ContestantNotFound", g)
  ELSE Ok([g EXCEPT !.contestants[index + 1].connected = FALSE])

name_contestant(g, index, name) ==
  IF ~ContestantExists(g, index) THEN Err("ContestantNotFound", g)
  ELSE Ok([g EXCEPT !.contestants[index + 1].name = Some(name)])

\* a correction that is booked to every contestant
modify_score_all(g, index, points) ==
  IF ~ContestantExists(g, index) THEN Err("ContestantNotFound", g)
  ELSE Ok([g EXCEPT !.contestants =
             [i \in 1..Len(g.contestants) |->
                [g.contestants[i] EXCEPT !.points = @ + points]]])

modify_score(g, index, points) ==
  IF ~ContestantExists(g, index) THEN Err("ContestantNotFound", g)
  ELSE Ok([g EXCEPT !.contestants[index + 1].points = @ + points])

\* a start that leaves the lights of the lobby on
start_game_lights_on(g, rnd) ==
  IF g.phase.tag # "Connecting" THEN WrongPhase(g, g)
  ELSE IF Len(g.contestants) = 0 THEN Err("NoContestants", g)
  ELSE Ok([g EXCEPT !.phase = Picking(random_contestant(g, rnd))])

start_game(g, rnd) ==
  IF g.phase.tag # "Connecting" THEN WrongPhase(g, g)
  ELSE IF Len(g.contestants) = 0 THEN Err("NoContestants", g)
  ELSE Ok([g EXCEPT !.phase = Picking(random_contestant(g, rnd)),
                    !.contestants = ClearIndicate(@)])

\* a pick that gives every clue to the picker exclusively
pick_always_exclusive(g, clue) ==
  IF g.phase.tag # "Picking" THEN WrongPhase(g, g)
  ELSE IF ~ClueExists(g.board, clue) THEN Err("ClueNotFound", g)
  ELSE Ok([g EXCEPT !.phase = Clue(clue, Some(g.phase.contestant))])

\* the phase assigned before the clue is looked up
pick_assign_first(g, clue) ==
  IF g.phase.tag # "Picking" THEN WrongPhase(g, g)
  ELSE IF ~ClueExists(g.board, clue) THEN Err("ClueNotFound", [g EXCEPT !.phase = Clue(clue, None)])
  ELSE Ok([g EXCEPT !.phase =
             Clue(clue, IF BoardGet(g.board, clue).exclusive
                        THEN Some(g.phase.contestant) ELSE None)])

pick(g, clue) ==
  IF g.phase.tag # "Picking" THEN WrongPhase(g, g)
  ELSE IF ~ClueExists(g.board, clue) THEN Err("ClueNotFound", g)
  ELSE Ok([g EXCEPT !.phase =
             Clue(clue, IF BoardGet(g.board, clue).exclusive
                        THEN Some(g.phase.contestant) ELSE None)])

\* a clue that is opened to everybody once it is shown
clue_fully_shown_open(g) ==
  IF g.phase.tag = "Clue" THEN Ok([g EXCEPT !.phase = Buzzing(g.phase.clue)])
  ELSE WrongPhase(g, g)

clue_fully_shown(g) ==
  IF g.phase.tag = "Clue" /\ g.phase.exclusive = None
    THEN Ok([g EXCEPT !.phase = Buzzing(g.phase.clue)])
  ELSE IF g.phase.tag = "Clue"
    THEN Ok([g EXCEPT !.phase = Buzzed(g.phase.clue, g.phase.exclusive[1])])
  ELSE WrongPhase(g, g)

\* a buzzer that lights the first contestant, whoever pressed it
buzz_first_lit(g, contestant_index) ==
  IF g.phase.tag = "Buzzing"
    THEN Ok([g EXCEPT
               !.contestants = [i \in 1..Len(g.contestants) |->
                  [g.contestants[i] EXCEPT !.indicate = (i = 1)]],
               !.phase = Buzzed(g.phase.clue, contestant_index)])
  ELSE IF g.phase.tag \in {"Connecting", "Score"}
    THEN IF ~ContestantExists(g, contestant_index) THEN Err("ContestantNotFound", g)
         ELSE Ok([g EXCEPT !.contestants[contestant_index + 1].indicate = ~@])
  ELSE WrongPhase(g, g)

\* a buzzer that only ever switches the light on in the lobby and at the end
buzz_light_on(g, contestant_index) ==
  IF g.phase.tag = "Buzzing"
    THEN Ok([g EXCEPT
               !.contestants = [i \in 1..Len(g.contestants) |->
                  [g.contestants[i] EXCEPT !.indicate = (i - 1 = contestant_index)]],
               !.phase = Buzzed(g.phase.clue, contestant_index)])
  ELSE IF g.phase.tag \in {"Connecting", "Score"}
    THEN IF ~ContestantExists(g, contestant_index) THEN Err("ContestantNotFound", g)
         ELSE Ok([g EXCEPT !.contestants[contestant_index + 1].indicate = TRUE])
  ELSE WrongPhase(g, g)

\* Game::indicate_contestant: never fails, also for a handle that names nobody
indicate_contestant(g, contestant_handle) ==
  [g EXCEPT !.contestants =
     [i \in 1..Len(g.contestants) |->
        [g.contestants[i] EXCEPT !.indicate = (i - 1 = contestant_handle)]]]

buzz(g, contestant_index) ==
  IF g.phase.tag = "Buzzing"
    THEN Ok([indicate_contestant(g, contestant_index) EXCEPT
               !.phase = Buzzed(g.phase.clue, contestant_index)])
  ELSE IF g.phase.tag \in {"Connecting", "Score"}
    THEN IF ~ContestantExists(g, contestant_index) THEN Err("ContestantNotFound", g)
         ELSE Ok([g EXCEPT !.contestants[contestant_index + 1].indicate = ~@])
  ELSE WrongPhase(g, g)

set_wage(g, points) ==
  IF g.phase.tag # "Waging" THEN WrongPhase(g, g)
  ELSE Ok([g EXCEPT !.phase = Clue(g.phase.clue, Some(g.phase.contestant))])

\* an accepted answer that pays nothing
accept_answer_free(g) ==
  IF g.phase.tag # "Buzzed" THEN WrongPhase(g, g)
  ELSE Ok([g EXCEPT !.phase = Resolution(g.phase.clue, g.phase.contestant, FALSE)])

accept_answer(g) ==
  IF g.phase.tag # "Buzzed" THEN WrongPhase(g, g)
  ELSE IF ~ClueExists(g.board, g.phase.clue) THEN Err("ClueNotFound", g)
  ELSE IF ~ContestantExists(g, g.phase.contestant) THEN Err("ContestantNotFound", g)
  ELSE Ok([g EXCEPT
             !.contestants[g.phase.contestant + 1].points =
                @ + BoardGet(g.board, g.phase.clue).points,
             !.contestants[g.phase.contestant + 1].indicate = FALSE,
             !.phase = Resolution(g.phase.clue, g.phase.contestant, FALSE)])

\* a rejection that costs nothing
reject_answer_free(g) ==
  IF g.phase.tag # "Buzzed" THEN WrongPhase(g, g)
  ELSE Ok([g EXCEPT !.phase = Buzzing(g.phase.clue)])

reject_answer(g) ==
  IF g.phase.tag # "Buzzed" THEN WrongPhase(g, g)
  ELSE IF ~ClueExists(g.board, g.phase.clue) THEN Err("ClueNotFound", g)
  ELSE IF ~ContestantExists(g, g.phase.contestant) THEN Err("ContestantNotFound", g)
  ELSE Ok([g EXCEPT
             !.contestants[g.phase.contestant + 1].points =
                @ - BoardGet(g.board, g.phase.clue).points,
             !.contestants[g.phase.contestant + 1].indicate = FALSE,
             !.phase = Buzzing(g.phase.clue)])

reveal_hint(g) ==
  IF g.phase.tag # "Resolution" THEN WrongPhase(g, g)
  ELSE Ok([g EXCEPT !.phase = Resolution(g.phase.clue, g.phase.contestant, TRUE)])

\* the first contestant picks after every clue
next_or_end_first(g, contestant) ==
  IF AllSolved(g.board) THEN Score ELSE Picking(0)

\* Game::next_or_end, always called with Some(contestant)
next_or_end(g, contestant) ==
  IF AllSolved(g.board) THEN Score ELSE Picking(contestant)

\* a clue that is finished without being marked
finish_clue_unmarked(g, rnd) ==
  IF g.phase.tag \notin {"Clue", "Buzzing", "Buzzed", "Resolution"} THEN WrongPhase(g, g)
  ELSE Ok([g EXCEPT
             !.phase =
                IF g.phase.tag = "Resolution" THEN next_or_end(g, g.phase.contestant)
                ELSE IF g.phase.tag = "Buzzed"
                  THEN Resolution(g.phase.clue, g.phase.contestant, FALSE)
                ELSE IF g.phase.tag = "Clue" /\ g.phase.exclusive # None
                  THEN Resolution(g.phase.clue, g.phase.exclusive[1], FALSE)
                ELSE Resolution(g.phase.clue, random_contestant(g, rnd), FALSE),
             !.contestants = ClearIndicate(@)])

\* Game::finish_clue: mark_solved comes first in every arm, then the new
\* phase (random_contestant divides by the registry's length), then the
\* indicate flags of all contestants are cleared
finish_clue(g, rnd) ==
  IF g.phase.tag \notin {"Clue", "Buzzing", "Buzzed", "Resolution"} THEN WrongPhase(g, g)
  ELSE IF ~ClueExists(g.board, g.phase.clue) THEN Err("ClueNotFound", g)
  ELSE
    LET solved == [g EXCEPT !.board = MarkSolved(g.board, g.phase.clue)]
        clue == g.phase.clue
        needs_random == \/ g.phase.tag = "Buzzing"
                        \/ g.phase.tag = "Clue" /\ g.phase.exclusive = None
    IN IF needs_random /\ Len(g.contestants) = 0 THEN Panic(solved)
       ELSE
         LET phase ==
               CASE g.phase.tag = "Clue" ->
                      Resolution(clue,
                                 IF g.phase.exclusive = None
                                 THEN random_contestant(solved, rnd)
                                 ELSE g.phase.exclusive[1],
                                 FALSE)
                 [] g.phase.tag = "Buzzing" ->
                      Resolution(clue, random_contestant(solved, rnd), FALSE)
                 [] g.phase.tag = "Buzzed" ->
                      Resolution(clue, g.phase.contestant, FALSE)
                 [] g.phase.tag = "Resolution" ->
                      next_or_end(solved, g.phase.contestant)
         IN Ok([solved EXCEPT !.phase = phase, !.contestants = ClearIndicate(@)])

\* Game::apply: the dispatch; Settings falls into `_ => todo!("other events")`
apply(g, event, rnd) ==
  CASE event.type = "LoadBoard" -> load_board(g, event.board)
    [] event.type = "OpenLobby" -> open_lobby(g)
    [] event.type = "ConnectContestant" -> connect_contestant(g, event.name_hint)
    [] event.type = "ReconnectContestant" -> reconnect_contestant(g, event.contestant)
    [] event.type = "DisconnectContestant" -> disconnect_contestant(g, event.contestant)
    [] event.type = "NameContestant" -> name_contestant(g, event.index, event.name)
    [] event.type = "AwardPoints" -> modify_score(g, event.contestant, event.points)
    [] event.type = "RevokePoints" -> modify_score(g, event.contestant, 0 - event.points)
    [] event.type = "StartGame" -> start_game(g, rnd)
    [] event.type = "Pick" -> pick(g, event.clue)
    [] event.type = "ClueFullyShown" -> clue_fully_shown(g)
    [] event.type = "Buzz" -> buzz(g, event.contestant)
    [] event.type = "SetWage" -> set_wage(g, event.points)
    [] event.type = "AcceptAnswer" -> accept_answer(g)
    [] event.type = "RejectAnswer" -> reject_answer(g)
    [] event.type = "RevealHint" -> reveal_hint(g)
    [] event.type = "FinishClue" -> finish_clue(g, rnd)
    [] OTHER -> Panic(g)

(* ------------------------------ state ---------------------------------- *)
VARIABLES
  game,       \* the Game: phase, board, contestants (lib.rs Game; State.game)
  last,       \* the last command given to Game::apply and what it returned
  journal,    \* the records of the journal file, oldest first
  in_q,       \* the mpsc command queue: In(event, response channel)
  out,        \* the watch channel: the published snapshot and its version
  actor,      \* State::process: where it is in its loop, the command in hand
  cancelled,  \* the CancellationToken
  conns,      \* the connection tasks (player_handler)
  hist        \* bookkeeping of the run: what was enqueued, accepted, published

gameVars == <<game, last>>
actorVars == <<journal, in_q, out, actor, cancelled, conns, hist>>
vars == <<game, last, journal, in_q, out, actor, cancelled, conns, hist>>

(* ------------------------------ events --------------------------------- *)
EvLoadBoard(b) == [type |-> "LoadBoard", board |-> b]
EvOpenLobby == [type |-> "OpenLobby"]
EvConnectContestant == [type |-> "ConnectContestant", name_hint |-> "hint"]
EvReconnectContestant(c) == [type |-> "ReconnectContestant", contestant |-> c]
EvDisconnectContestant(c) == [type |-> "DisconnectContestant", contestant |-> c]
EvNameContestant(c) == [type |-> "NameContestant", index |-> c, name |-> "name"]
EvAwardPoints(c) == [type |-> "AwardPoints", contestant |-> c, points |-> 1]
EvRevokePoints(c) == [type |-> "RevokePoints", contestant |-> c, points |-> 1]
EvStartGame == [type |-> "StartGame"]
EvPick(clue) == [type |-> "Pick", clue |-> clue]
EvClueFullyShown == [type |-> "ClueFullyShown"]
EvBuzz(c) == [type |-> "Buzz", contestant |-> c]
EvSetWage == [type |-> "SetWage", points |-> 1]
EvAcceptAnswer == [type |-> "AcceptAnswer"]
EvRejectAnswer == [type |-> "RejectAnswer"]
EvRevealHint == [type |-> "RevealHint"]
EvFinishClue == [type |-> "FinishClue"]
EvSettings == [type |-> "Settings"]

\* every command of events.rs Event (and the AwardPoints / RevokePoints arms
\* of Game::apply), over the input sets above
Events ==
  {EvLoadBoard(b) : b \in Boards}
  \cup {EvOpenLobby, EvConnectContestant, EvStartGame, EvClueFullyShown, EvSetWage,
        EvAcceptAnswer, EvRejectAnswer, EvRevealHint, EvFinishClue, EvSettings}
  \cup {EvReconnectContestant(c) : c \in Handles}
  \cup {EvDisconnectContestant(c) : c \in Handles}
  \cup {EvNameContestant(c) : c \in Handles}
  \cup {EvAwardPoints(c) : c \in Handles}
  \cup {EvRevokePoints(c) : c \in Handles}
  \cup {EvBuzz(c) : c \in Handles}
  \cup {EvPick(clue) : clue \in ClueHandles}

\* the inputs explored: the registry holds at most MaxContestants, scores
\* stay within MaxScore
WithinBounds(g) ==
  /\ Len(g.contestants) <= MaxContestants
  /\ \A i \in 1..Len(g.contestants) :
       g.contestants[i].points \in (0 - MaxScore)..MaxScore

(* ------------------- the game driven directly (lib.rs) ----------------- *)
NoCall == [type |-> "none", res |-> "none"]

\* what Game::apply returned, without the game itself
\* (the command's type is kept for an accepted command; a rejection keeps
\* the error alone)
Returned(event, r) ==
  IF r.res = "WrongPhase" THEN [type |-> "rejected", res |-> r.res, is |-> r.is]
  ELSE IF r.res = "Ok" THEN [type |-> event.type, res |-> r.res]
  ELSE IF r.res = "Panic" THEN [type |-> event.type, res |-> r.res]
  ELSE [type |-> "rejected", res |-> r.res]

\* random_contestant is reached from start_game and finish_clue only
EntropyFor(event) ==
  IF event.type \in {"StartGame", "FinishClue"} THEN Entropy ELSE {0}

\* one call of Game::apply on a live game
GameApply(event) ==
  /\ last.res # "Panic"
  /\ \E rnd \in EntropyFor(event) :
       LET r == apply(game, event, rnd) IN
       /\ WithinBounds(r.game)
       /\ game' = r.game
       /\ last' = Returned(event, r)
  /\ UNCHANGED actorVars

LoadBoard == \E b \in Boards : GameApply(EvLoadBoard(b))
OpenLobby == GameApply(EvOpenLobby)
ConnectContestant == GameApply(EvConnectContestant)
ReconnectContestant == \E c \in AdminHandles : GameApply(EvReconnectContestant(c))
DisconnectContestant == \E c \in AdminHandles : GameApply(EvDisconnectContestant(c))
NameContestant == \E c \in AdminHandles : GameApply(EvNameContestant(c))
AwardPoints == \E c \in AdminHandles : GameApply(EvAwardPoints(c))
RevokePoints == \E c \in AdminHandles : GameApply(EvRevokePoints(c))
StartGame == GameApply(EvStartGame)
Pick == \E clue \in ClueHandles : GameApply(EvPick(clue))
ClueFullyShown == GameApply(EvClueFullyShown)
Buzz == \E c \in Handles : GameApply(EvBuzz(c))
SetWage == GameApply(EvSetWage)
AcceptAnswer == GameApply(EvAcceptAnswer)
RejectAnswer == GameApply(EvRejectAnswer)
RevealHint == GameApply(EvRevealHint)
FinishClue == GameApply(EvFinishClue)
Settings == GameApply(EvSettings)

InitActorIdle ==
  /\ journal = <<>>
  /\ in_q = <<>>
  /\ out = [value |-> NewGame, version |-> 0]
  /\ actor = [pc |-> "off"]
  /\ cancelled = FALSE
  /\ conns = <<>>
  /\ hist = <<>>

InitGame ==
  /\ game = NewGame
  /\ last = NoCall
  /\ InitActorIdle

NextGame ==
  \/ LoadBoard \/ OpenLobby \/ ConnectContestant \/ ReconnectContestant
  \/ DisconnectContestant \/ NameContestant \/ AwardPoints \/ RevokePoints
  \/ StartGame \/ Pick \/ ClueFullyShown \/ Buzz \/ SetWage \/ AcceptAnswer
  \/ RejectAnswer \/ RevealHint \/ FinishClue \/ Settings

SpecGame == InitGame /\ [][NextGame]_vars


(* ------------- a match played command by command (lib.rs tests) -------- *)
\* tests::get_test_board(2, 2)
TestCats == 2
TestClues == 2
\* RejectAnswer commands accepted within one clue's lifecycle
MaxRejects == 1

\* tests::get_test_board: clue q of every category is worth 100 * q, the
\* fourth clue of the second category is the daily double
get_test_board(cs, qs) ==
  [c \in 1..cs |->
     [q \in 1..qs |-> MkClue(100 * q, q = 4 /\ c = 2, q = 4 /\ c = 2, FALSE)]]

test_board == get_test_board(TestCats, TestClues)

TestClueHandles == (0..(TestCats - 1)) \X (0..(TestClues - 1))

\* one clue of tests::it_works: picked, shown, buzzed, judged, finished
Lifecycle(clue, judgement) ==
  <<EvPick(clue), EvClueFullyShown, EvBuzz(0), judgement, EvFinishClue>>

\* the commands of tests::it_works, in order
it_works ==
  <<EvLoadBoard(test_board), EvOpenLobby, EvConnectContestant, EvNameContestant(0),
    EvStartGame>>
  \o Lifecycle(<<0, 0>>, EvRejectAnswer) \o Lifecycle(<<0, 1>>, EvAcceptAnswer)
  \o Lifecycle(<<1, 0>>, EvAcceptAnswer) \o Lifecycle(<<1, 1>>, EvAcceptAnswer)

\* the commands given to a match on the test board
PlayEvents ==
  {EvLoadBoard(test_board), EvOpenLobby, EvConnectContestant, EvNameContestant(0),
   EvStartGame, EvClueFullyShown, EvAcceptAnswer, EvRejectAnswer, EvFinishClue}
  \cup {EvBuzz(c) : c \in 0..(MaxContestants - 1)}
  \cup {EvPick(clue) : clue \in TestClueHandles}

RECURSIVE SumPoints(_)
SumPoints(contestants) ==
  IF contestants = <<>> THEN 0
  ELSE Head(contestants).points + SumPoints(Tail(contestants))

\* bookkeeping of a match: n is how far the commands given so far follow
\* it_works (-1 once they left it) and ok whether all of those were
\* accepted; base is the sum of all scores when the clue in play was picked,
\* acc and rej count the answers accepted and rejected for it since;
\* plays counts them per clue over the whole match
NoPlays == [clue \in TestClueHandles |-> [acc |-> 0, rej |-> 0]]
PlayStart == [n |-> 0, ok |-> TRUE, base |-> 0, acc |-> 0, rej |-> 0, plays |-> NoPlays]

Played(event, r) ==
  LET n == IF hist.n >= 0 /\ hist.n < Len(it_works) /\ event = it_works[hist.n + 1]
             THEN hist.n + 1 ELSE 0 - 1
      accepted == r.res = "Ok"
      clue == game.phase.clue
  IN [n |-> n,
      ok |-> IF n < 0 THEN TRUE ELSE hist.ok /\ accepted,
      base |-> IF accepted /\ event.type = "Pick" THEN SumPoints(game.contestants)
               ELSE hist.base,
      acc |-> IF accepted /\ event.type = "Pick" THEN 0
              ELSE IF accepted /\ event.type = "AcceptAnswer" THEN hist.acc + 1
              ELSE hist.acc,
      rej |-> IF accepted /\ event.type = "Pick" THEN 0
              ELSE IF accepted /\ event.type = "RejectAnswer" THEN hist.rej + 1
              ELSE hist.rej,
      plays |-> IF accepted /\ event.type = "AcceptAnswer"
                  THEN [hist.plays EXCEPT ![clue].acc = @ + 1]
                ELSE IF accepted /\ event.type = "RejectAnswer"
                  THEN [hist.plays EXCEPT ![clue].rej = @ + 1]
                ELSE hist.plays]

\* the commands a match is given: at most MaxContestants register, a clue is
\* offered for picking while it is unsolved, at most MaxRejects answers to a
\* clue are rejected, and nobody plays with the buzzer in the lobby or at
\* the end
Offered(event) ==
  /\ event.type = "ConnectContestant" => Len(game.contestants) < MaxContestants
  /\ event.type = "Buzz" => game.phase.tag \notin {"Connecting", "Score"}
  /\ (event.type = "Pick" /\ game.phase.tag = "Picking")
       => ~(ClueExists(game.board, event.clue) /\ BoardGet(game.board, event.clue).solved)
  /\ (event.type = "RejectAnswer" /\ game.phase.tag = "Buzzed")
       => hist.rej < MaxRejects

\* one call of Game::apply in a match
Play ==
  \E event \in PlayEvents :
    /\ Offered(event)
    /\ \E rnd \in EntropyFor(event) :
         LET r == apply(game, event, rnd) IN
         /\ game' = r.game
         /\ last' = Returned(event, r)
         /\ hist' = Played(event, r)
    /\ UNCHANGED <<journal, in_q, out, actor, cancelled, conns>>

InitPlay ==
  /\ game = NewGame
  /\ last = NoCall
  /\ journal = <<>>
  /\ in_q = <<>>
  /\ out = [value |-> NewGame, version |-> 0]
  /\ actor = [pc |-> "off"]
  /\ cancelled = FALSE
  /\ conns = <<>>
  /\ hist = PlayStart

SpecPlay == InitPlay /\ [][Play]_vars

(* --------- the server: State::process and the connection tasks --------- *)
\* connection tasks of one run
MaxConns == 2
\* commands enqueued over a behaviour (all runs of the server together)
MaxCommands == 2
\* restarts of the server on the same journal file
MaxRestarts == 1
\* mpsc::channel(8)
QueueCapacity == 8

Conns == 1..MaxConns

\* the board file the transport loads, and the commands handle_input can
\* produce (communication.rs Input); DisconnectContestant is sent by
\* player_handler itself when a connection ends
ServerBoard == MkBoard(1, 2, MkClue(1, FALSE, FALSE, FALSE))

\* its two clues and a handle that names no clue
ServerClues == {<<0, 0>>, <<0, 1>>, <<MaxCats, 0>>}

Inputs ==
  {EvLoadBoard(ServerBoard), EvOpenLobby, EvStartGame, EvConnectContestant,
   EvClueFullyShown, EvAcceptAnswer, EvRejectAnswer, EvRevealHint, EvFinishClue}
  \cup {EvReconnectContestant(c) : c \in AdminHandles}
  \cup {EvBuzz(c) : c \in AdminHandles}
  \cup {EvPick(clue) : clue \in ServerClues}

\* a match as an earlier run of the server journaled it, command by command
Script ==
  <<EvLoadBoard(ServerBoard), EvOpenLobby, EvConnectContestant, EvConnectContestant,
    EvStartGame, EvPick(<<0, 0>>), EvClueFullyShown, EvBuzz(0), EvAcceptAnswer,
    EvFinishClue, EvPick(<<0, 1>>), EvClueFullyShown, EvBuzz(1),
    EvRejectAnswer, EvFinishClue, EvFinishClue>>

\* the journal files the server is started on: no journal, or the match up
\* to the lobby (empty and full), to Buzzing, to Buzzed and to Resolution
StartLengths == {0, 2, 4, 7, 8, 9}
StartJournals == { SubSeq(Script, 1, n) : n \in StartLengths }

\* the loop of with_journal_and_token: every event of the journal applied in
\* order, stopping at the first one that is not accepted; the set of results
\* over the values random_contestant can take in the new process
RECURSIVE Replay(_, _)
Replay(g, events) ==
  IF events = <<>> THEN {Ok(g)}
  ELSE UNION { IF r.res = "Ok" THEN Replay(r.game, Tail(events)) ELSE {r} :
               r \in { apply(g, Head(events), rnd) : rnd \in EntropyFor(Head(events)) } }

NoEvent == [type |-> "none"]
ActorIdle(pc) == [pc |-> pc, event |-> NoEvent, from |-> 0, ticket |-> 0, result |-> None]

\* a connection: pc is the place of player_handler, controlling, seen (the
\* version the watch receiver has marked seen), the command it awaits the
\* response to and the response slot; sent holds the versions of the last
\* two snapshots written to its socket
NewConn ==
  [pc |-> "idle", controlling |-> None, seen |-> 0, sent |-> <<>>,
   event |-> NoEvent, ticket |-> 0, resp |-> None]

\* what Game::apply's result looks like to the submitter: Ok(GameState) or Err
Response(r) ==
  IF r.res = "Ok" THEN [res |-> "Ok", state |-> r.game]
  ELSE IF r.res = "WrongPhase" THEN [res |-> r.res, is |-> r.is]
  ELSE [res |-> r.res]

\* State::with_journal_and_token, for a journal whose replay gave game g and
\* left all contestants disconnected; live, restarts and tickets (the
\* commands enqueued in earlier runs) are bookkeeping
Started(j, g, live, restarts, tickets) ==
  [game |-> g,
   journal |-> j,
   in_q |-> <<>>,
   out |-> [value |-> g, version |-> 0],
   actor |-> ActorIdle("select"),
   cancelled |-> FALSE,
   conns |-> [c \in Conns |-> NewConn],
   hist |-> [enqueued |-> tickets, taken |-> tickets, start |-> Len(j), accepted |-> <<>>,
             snaps |-> <<g>>, expect |-> [c \in Conns |-> None],
             live |-> live, restarts |-> restarts, at_cancel |-> None]]

with_journal_and_token(j, live, restarts, tickets) ==
  { IF r.res = "Ok"
      THEN [ok |-> TRUE,
            state |-> Started(j, mark_all_contestants_as_disconnected(r.game),
                             live, restarts, tickets)]
      ELSE [ok |-> FALSE, error |-> r.res] :
    r \in Replay(NewGame, j) }

\* the tasks share one thread (tokio current_thread): a connection or the
\* signal handler runs only while process() is parked in its select!
Parked == actor.pc \in {"select", "returned"}

Push2(sent, v) == IF Len(sent) = 0 THEN <<v>> ELSE <<sent[Len(sent)], v>>

\* ConnectContestant commands on their way to the game
ConnectsQueued == Cardinality({i \in 1..Len(in_q) : in_q[i].event.type = "ConnectContestant"})

Enqueue(c, event) ==
  /\ Len(in_q) < QueueCapacity
  /\ hist.enqueued < MaxCommands
  /\ in_q' = Append(in_q, [event |-> event, from |-> c, ticket |-> hist.enqueued + 1])
  /\ hist' = [hist EXCEPT !.enqueued = @ + 1]

\* player_handler up to its loop: the receiver is a clone of State.out_rx,
\* which has seen the channel's first value only; borrow() reads the latest
\* value without marking it seen, and it is sent as the initial state
ConnOpen(c) ==
  /\ Parked
  /\ conns[c].pc = "idle"
  /\ conns' = [conns EXCEPT ![c].pc = "loop", ![c].seen = 0,
                            ![c].sent = Push2(@, out.version)]
  /\ UNCHANGED <<game, last, journal, in_q, out, actor, cancelled, hist>>

\* the value the receiver saw last written to the socket
ConnStateChangedStale(c) ==
  /\ Parked
  /\ conns[c].pc = "loop"
  /\ conns[c].seen # out.version
  /\ conns' = [conns EXCEPT ![c].seen = out.version,
                            ![c].sent = Push2(@, conns[c].seen)]
  /\ UNCHANGED <<game, last, journal, in_q, out, actor, cancelled, hist>>

\* Connection::handle_new_game_state, when rx.changed() resolves
ConnStateChanged(c) ==
  /\ Parked
  /\ conns[c].pc = "loop"
  /\ conns[c].seen # out.version
  /\ conns' = [conns EXCEPT ![c].seen = out.version,
                            ![c].sent = Push2(@, out.version)]
  /\ UNCHANGED <<game, last, journal, in_q, out, actor, cancelled, hist>>

\* Connection::handle_message for a text message, up to State::send's await
ConnSubmit(c) ==
  /\ Parked
  /\ conns[c].pc = "loop"
  /\ \E event \in Inputs :
       /\ event.type \in {"ConnectContestant", "ReconnectContestant"}
            => conns[c].controlling = None
       /\ event.type = "ConnectContestant"
            => Len(game.contestants) + ConnectsQueued < MaxContestants
       /\ Enqueue(c, event)
       /\ conns' = [conns EXCEPT ![c].pc = "waiting", ![c].event = event,
                                 ![c].ticket = hist.enqueued + 1]
  /\ UNCHANGED <<game, last, journal, out, actor, cancelled>>

\* Connection::handle_message after State::send returned
ConnResponse(c) ==
  /\ Parked
  /\ conns[c].pc = "waiting"
  /\ conns[c].resp # None
  /\ LET r == conns[c].resp[1]
         event == conns[c].event
         controlling ==
           IF r.res = "Ok" /\ event.type = "ConnectContestant"
             THEN Some(Len(r.state.contestants))
           ELSE IF r.res = "Ok" /\ event.type = "ReconnectContestant"
             THEN Some(event.contestant)
           ELSE conns[c].controlling
     IN conns' = [conns EXCEPT ![c].pc = "loop", ![c].controlling = controlling,
                               ![c].event = NoEvent, ![c].ticket = 0, ![c].resp = None]
  /\ hist' = [hist EXCEPT !.expect[c] = None]
  /\ UNCHANGED <<game, last, journal, in_q, out, actor, cancelled>>

\* the loop of player_handler ends (socket closed, error, missed pings):
\* a DisconnectContestant for the contestant the connection controls
ConnEnd(c) ==
  /\ Parked
  /\ conns[c].pc = "loop"
  /\ IF conns[c].controlling = None
       THEN /\ conns' = [conns EXCEPT ![c].pc = "done"]
            /\ UNCHANGED <<in_q, hist>>
       ELSE LET event == EvDisconnectContestant(conns[c].controlling[1]) IN
            /\ Enqueue(c, event)
            /\ conns' = [conns EXCEPT ![c].pc = "closing", ![c].event = event,
                                      ![c].ticket = hist.enqueued + 1]
  /\ UNCHANGED <<game, last, journal, out, actor, cancelled>>

\* player_handler returns once that last command is answered
ConnClosed(c) ==
  /\ Parked
  /\ conns[c].pc = "closing"
  /\ conns[c].resp # None
  /\ conns' = [conns EXCEPT ![c].pc = "done", ![c].event = NoEvent,
                            ![c].ticket = 0, ![c].resp = None]
  /\ hist' = [hist EXCEPT !.expect[c] = None]
  /\ UNCHANGED <<game, last, journal, in_q, out, actor, cancelled>>

\* the snapshot published as soon as the command is applied
ActorRecvPublishes ==
  /\ actor.pc = "select"
  /\ in_q # <<>>
  /\ LET m == Head(in_q) IN
     \E rnd \in EntropyFor(m.event) :
       LET r == apply(game, m.event, rnd) IN
       /\ game' = r.game
       /\ in_q' = Tail(in_q)
       /\ out' = IF r.res = "Ok" THEN [value |-> r.game, version |-> out.version + 1]
                 ELSE out
       /\ actor' = [pc |-> IF r.res = "Ok" THEN "applied"
                           ELSE IF r.res = "Panic" THEN "panicked" ELSE "rejected",
                    event |-> m.event, from |-> m.from, ticket |-> m.ticket,
                    result |-> Some(Response(r))]
       /\ hist' = [hist EXCEPT
                     !.taken = @ + 1,
                     !.accepted = IF r.res = "Ok" THEN Append(@, m.event) ELSE @,
                     !.snaps = IF r.res = "Ok" THEN Append(@, r.game) ELSE @,
                     !.expect[m.from] = Some([ticket |-> m.ticket, response |-> Response(r)])]
  /\ UNCHANGED <<last, journal, cancelled, conns>>

\* the newest command of the queue taken first
ActorRecvNewest ==
  /\ actor.pc = "select"
  /\ in_q # <<>>
  /\ LET m == in_q[Len(in_q)] IN
     \E rnd \in EntropyFor(m.event) :
       LET r == apply(game, m.event, rnd) IN
       /\ game' = r.game
       /\ in_q' = SubSeq(in_q, 1, Len(in_q) - 1)
       /\ actor' = [pc |-> IF r.res = "Ok" THEN "applied"
                           ELSE IF r.res = "Panic" THEN "panicked" ELSE "rejected",
                    event |-> m.event, from |-> m.from, ticket |-> m.ticket,
                    result |-> Some(Response(r))]
       /\ hist' = [hist EXCEPT
                     !.taken = @ + 1,
                     !.accepted = IF r.res = "Ok" THEN Append(@, m.event) ELSE @,
                     !.snaps = IF r.res = "Ok" THEN Append(@, r.game) ELSE @,
                     !.expect[m.from] = Some([ticket |-> m.ticket, response |-> Response(r)])]
  /\ UNCHANGED <<last, journal, out, cancelled, conns>>

\* State::process, the recv branch of select!: the oldest command of the
\* queue is taken and applied
ActorRecv ==
  /\ actor.pc = "select"
  /\ in_q # <<>>
  /\ LET m == Head(in_q) IN
     \E rnd \in EntropyFor(m.event) :
       LET r == apply(game, m.event, rnd) IN
       /\ game' = r.game
       /\ in_q' = Tail(in_q)
       /\ actor' = [pc |-> IF r.res = "Ok" THEN "applied"
                           ELSE IF r.res = "Panic" THEN "panicked" ELSE "rejected",
                    event |-> m.event, from |-> m.from, ticket |-> m.ticket,
                    result |-> Some(Response(r))]
       /\ hist' = [hist EXCEPT
                     !.taken = @ + 1,
                     !.accepted = IF r.res = "Ok" THEN Append(@, m.event) ELSE @,
                     !.snaps = IF r.res = "Ok" THEN Append(@, r.game) ELSE @,
                     !.expect[m.from] = Some([ticket |-> m.ticket, response |-> Response(r)])]
  /\ UNCHANGED <<last, journal, out, cancelled, conns>>

\* a record written twice
ActorJournalTwice ==
  /\ actor.pc = "applied"
  /\ journal' = journal \o <<actor.event, actor.event>>
  /\ actor' = [actor EXCEPT !.pc = "journaled"]
  /\ UNCHANGED <<game, last, in_q, out, cancelled, conns, hist>>

\* State::write_to_journal
ActorJournal ==
  /\ actor.pc = "applied"
  /\ journal' = Append(journal, actor.event)
  /\ actor' = [actor EXCEPT !.pc = "journaled"]
  /\ UNCHANGED <<game, last, in_q, out, cancelled, conns, hist>>

\* the submitter answered with the snapshot that is published
ActorRespondPublished ==
  /\ actor.pc = "journaled"
  /\ conns' = [conns EXCEPT ![actor.from].resp = Some([res |-> "Ok", state |-> out.value])]
  /\ actor' = [actor EXCEPT !.pc = "responded"]
  /\ UNCHANGED <<game, last, journal, in_q, out, cancelled, hist>>

\* response_channel.send(Ok(new_state.clone()))
ActorRespond ==
  /\ actor.pc = "journaled"
  /\ conns' = [conns EXCEPT ![actor.from].resp = actor.result]
  /\ actor' = [actor EXCEPT !.pc = "responded"]
  /\ UNCHANGED <<game, last, journal, in_q, out, cancelled, hist>>

\* self.out_tx.send_replace(new_state)
ActorPublish ==
  /\ actor.pc = "responded"
  /\ out' = [value |-> actor.result[1].state, version |-> out.version + 1]
  /\ actor' = ActorIdle("select")
  /\ UNCHANGED <<game, last, journal, in_q, cancelled, conns, hist>>

\* a rejected command journaled like an accepted one
ActorRejectJournals ==
  /\ actor.pc = "rejected"
  /\ conns' = [conns EXCEPT ![actor.from].resp = actor.result]
  /\ journal' = Append(journal, actor.event)
  /\ actor' = ActorIdle("select")
  /\ UNCHANGED <<game, last, in_q, out, cancelled, hist>>

\* a rejection that republishes the game
ActorRejectPublishes ==
  /\ actor.pc = "rejected"
  /\ conns' = [conns EXCEPT ![actor.from].resp = actor.result]
  /\ out' = [value |-> game, version |-> out.version + 1]
  /\ actor' = ActorIdle("select")
  /\ UNCHANGED <<game, last, journal, in_q, cancelled, hist>>

\* the Err arm: response_channel.send(Err(error))
ActorReject ==
  /\ actor.pc = "rejected"
  /\ conns' = [conns EXCEPT ![actor.from].resp = actor.result]
  /\ actor' = ActorIdle("select")
  /\ UNCHANGED <<game, last, journal, in_q, out, cancelled, hist>>

\* a cancelled() branch that goes round the loop again
ActorReturnContinues ==
  /\ actor.pc = "select"
  /\ cancelled
  /\ UNCHANGED vars

\* the cancelled() branch of select!; select! polls its ready branches in
\* random order, so with a command queued either branch may be taken
ActorReturn ==
  /\ actor.pc = "select"
  /\ cancelled
  /\ actor' = ActorIdle("returned")
  /\ UNCHANGED <<game, last, journal, in_q, out, cancelled, conns, hist>>

\* main: ctrl_c, then cancellation_token.cancel(); the number of commands
\* enqueued so far is noted
Cancel ==
  /\ actor.pc = "select"
  /\ ~cancelled
  /\ cancelled' = TRUE
  /\ hist' = [hist EXCEPT !.at_cancel = Some(hist.enqueued)]
  /\ UNCHANGED <<game, last, journal, in_q, out, actor, conns>>

\* the server process is started again on the journal it left behind
Restart ==
  /\ actor.pc = "returned"
  /\ hist.restarts < MaxRestarts
  /\ \E s \in with_journal_and_token(journal, Some(game), hist.restarts + 1,
                                     hist.enqueued) :
       IF s.ok
         THEN /\ game' = s.state.game
              /\ journal' = s.state.journal
              /\ in_q' = s.state.in_q
              /\ out' = s.state.out
              /\ actor' = s.state.actor
              /\ cancelled' = s.state.cancelled
              /\ conns' = s.state.conns
              /\ hist' = s.state.hist
         ELSE /\ actor' = ActorIdle("failed")
              /\ UNCHANGED <<game, journal, in_q, out, cancelled, conns, hist>>
  /\ UNCHANGED last

InitServer ==
  /\ last = NoCall
  /\ \E j \in StartJournals : \E s \in with_journal_and_token(j, None, 0, 0) :
       /\ s.ok
       /\ game = s.state.game
       /\ journal = s.state.journal
       /\ in_q = s.state.in_q
       /\ out = s.state.out
       /\ actor = s.state.actor
       /\ cancelled = s.state.cancelled
       /\ conns = s.state.conns
       /\ hist = s.state.hist

ConnStep ==
  \E c \in Conns :
    \/ ConnOpen(c) \/ ConnStateChanged(c) \/ ConnSubmit(c)
    \/ ConnResponse(c) \/ ConnEnd(c) \/ ConnClosed(c)

ActorStep ==
  \/ ActorRecv \/ ActorJournal \/ ActorRespond \/ ActorPublish
  \/ ActorReject \/ ActorReturn

NextServer == ConnStep \/ ActorStep \/ Cancel

SpecServer == InitServer /\ [][NextServer]_vars

SpecRestart == InitServer /\ [][NextServer \/ Restart]_vars

\* a server started without a journal, or on the journal of an open lobby
InitEarly == InitServer /\ Len(journal) <= 2

\* process() is a task of the runtime and is polled whenever it can go on;
\* select! picks among its ready branches at random, so the cancelled()
\* branch is not passed over forever
SpecServerFair ==
  /\ InitEarly
  /\ [][NextServer]_vars
  /\ WF_vars(ActorRecv) /\ WF_vars(ActorJournal) /\ WF_vars(ActorRespond)
  /\ WF_vars(ActorPublish) /\ WF_vars(ActorReject)
  /\ SF_vars(ActorReturn)

(* ----------------------------------------------------------------------- *)
(* C1: in every reachable state, every command that is not legal in the    *)
(* current phase is answered by Game::apply with WrongPhase carrying the   *)
(* current phase, and board, contestants and phase are left as they were.  *)
(* ----------------------------------------------------------------------- *)
\* the phases in which a phase-bound command is legal (events.rs, spec 4.1)
LegalPhases ==
  [LoadBoard |-> {"Preparing"}, OpenLobby |-> {"Preparing"},
   ConnectContestant |-> {"Connecting"}, StartGame |-> {"Connecting"},
   Pick |-> {"Picking"}, SetWage |-> {"Waging"}, ClueFullyShown |-> {"Clue"},
   Buzz |-> {"Buzzing", "Connecting", "Score"},
   AcceptAnswer |-> {"Buzzed"}, RejectAnswer |-> {"Buzzed"},
   RevealHint |-> {"Resolution"},
   FinishClue |-> {"Clue", "Buzzing", "Buzzed", "Resolution"}]

IllegalNow(event, g) ==
  /\ event.type \in DOMAIN LegalPhases
  /\ g.phase.tag \notin LegalPhases[event.type]

C1_IllegalCommandIsWrongPhase ==
  \A event \in Events : \A rnd \in Entropy :
    IllegalNow(event, game) =>
      LET r == apply(game, event, rnd) IN
      /\ r.res = "WrongPhase"
      /\ r.is = game.phase
      /\ r.game = game

\* an illegal command was given in the middle of a clue and came back as
\* WrongPhase with the phase the game is (still) in
C1_Witness ==
  /\ last.res = "WrongPhase"
  /\ last.is = game.phase
  /\ game.phase.tag = "Buzzed"

(* ----------------------------------------------------------------------- *)
(* C2: whenever Game::apply returns an error (WrongPhase,                  *)
(* ContestantNotFound, ClueNotFound, NoContestants) the game is identical  *)
(* to the game before the call: a rejected command mutates nothing.        *)
(* ----------------------------------------------------------------------- *)
ErrorKinds == {"WrongPhase", "ContestantNotFound", "ClueNotFound", "NoContestants"}

C2_RejectionMutatesNothing ==
  \A event \in Events : \A rnd \in Entropy :
    LET r == apply(game, event, rnd) IN
    r.res \in ErrorKinds => r.game = game

\* a Pick of a clue that is not on the board was rejected during Picking,
\* while a contestant holds points
C2_Witness ==
  /\ last.res = "ClueNotFound"
  /\ game.phase.tag = "Picking"
  /\ \E i \in 1..Len(game.contestants) : game.contestants[i].points # 0

(* ----------------------------------------------------------------------- *)
(* C3: replaying the journal at startup yields the model the live actor    *)
(* had when its last command was applied: same board, same phase (with the *)
(* contestant StartGame or FinishClue chose), same contestants.  Stated    *)
(* here up to the connected flags, which the startup clears on purpose     *)
(* (mark_all_contestants_as_disconnected).                                 *)
(* ----------------------------------------------------------------------- *)
JustRestarted ==
  /\ hist.restarts > 0
  /\ actor.pc = "select"
  /\ hist.taken = hist.enqueued
  /\ hist.accepted = <<>>
  /\ in_q = <<>>

C3_ReplayReproducesLiveModel ==
  (JustRestarted /\ hist.live # None) =>
    game = mark_all_contestants_as_disconnected(hist.live[1])

(* ----------------------------------------------------------------------- *)
(* C4: the records appended to the journal since startup are exactly the   *)
(* commands the game accepted, in the order it accepted them, each once,   *)
(* and no rejected command.  Inside the handler, between Game::apply and   *)
(* write_to_journal, the command in hand is the one record still to come.  *)
(* ----------------------------------------------------------------------- *)
JournalSinceStart == SubSeq(journal, hist.start + 1, Len(journal))

C4_JournalIsAcceptedCommands ==
  JournalSinceStart =
    IF actor.pc = "applied"
      THEN SubSeq(hist.accepted, 1, Len(hist.accepted) - 1)
      ELSE hist.accepted

\* one command was accepted and journaled and another one rejected
C4_Witness ==
  /\ actor.pc = "select"
  /\ Len(JournalSinceStart) = 1
  /\ hist.taken - Len(hist.accepted) >= 1

(* ----------------------------------------------------------------------- *)
(* C5: while the actor processes a command the game rejects, the journal   *)
(* and the published snapshot stay as they are, no connection but the      *)
(* submitter's is touched, and the submitter's response slot receives the  *)
(* rejection.                                                              *)
(* ----------------------------------------------------------------------- *)
C5_RejectionReachesSubmitterOnly ==
  [][ (actor.pc = "rejected" \/ actor'.pc = "rejected") =>
        /\ journal' = journal
        /\ out' = out
        /\ actor.pc = "rejected" =>
             /\ \A c \in Conns : c # actor.from => conns'[c] = conns[c]
             /\ conns'[actor.from].resp = actor.result
             /\ actor.result[1].res \in ErrorKinds
             /\ conns[actor.from].ticket = actor.ticket
        /\ actor'.pc = "rejected" => conns' = conns
    ]_vars

\* a rejection sits in the response slot of the connection that sent the
\* command, after a snapshot had been published
C5_Witness ==
  \E c \in Conns :
    /\ conns[c].resp # None
    /\ conns[c].resp[1].res \in ErrorKinds
    /\ out.version >= 1

(* ----------------------------------------------------------------------- *)
(* C6: the published snapshot is always the game as it was after some      *)
(* prefix of the commands already in the journal: the n-th publication of  *)
(* a run is the game after the n-th accepted command, and n never exceeds  *)
(* the number of records journaled in that run.                            *)
(* ----------------------------------------------------------------------- *)
C6_JournaledBeforePublished ==
  /\ out.version <= Len(JournalSinceStart)
  /\ out.version + 1 <= Len(hist.snaps)
  /\ out.value = hist.snaps[out.version + 1]

\* a second command is applied but not yet journaled, the first is published
C6_Witness ==
  /\ actor.pc = "applied"
  /\ out.version = 1
  /\ out.value # game

(* ----------------------------------------------------------------------- *)
(* C7: commands are applied one at a time in the order they were enqueued: *)
(* the command in hand is the (taken)-th enqueued, the queue holds the     *)
(* following ones in order, and the game is the game after the last        *)
(* accepted command.                                                       *)
(* ----------------------------------------------------------------------- *)
Handling == actor.pc \in {"applied", "journaled", "responded", "rejected", "panicked"}

C7_AppliedInQueueOrder ==
  /\ hist.enqueued = hist.taken + Len(in_q)
  /\ \A i \in 1..Len(in_q) : in_q[i].ticket = hist.taken + i
  /\ Handling => actor.ticket = hist.taken
  /\ game = hist.snaps[Len(hist.snaps)]

\* two connections have a command in flight at once; one is being handled
C7_Witness ==
  /\ Handling
  /\ Len(in_q) = 1
  /\ in_q[1].from # actor.from

(* ----------------------------------------------------------------------- *)
(* C8 (as claimed): the snapshots a connection writes to its socket are a  *)
(* subsequence of the published ones: each later than the one before.      *)
(* ----------------------------------------------------------------------- *)
C8_StrictSubsequence ==
  \A c \in Conns : Len(conns[c].sent) = 2 => conns[c].sent[1] < conns[c].sent[2]

(* C8 (amended): a connection never writes an older snapshot after a newer *)
(* one; it may skip snapshots and may write the same one twice in a row.   *)
C8_NeverOlderSnapshot ==
  \A c \in Conns : Len(conns[c].sent) = 2 => conns[c].sent[1] <= conns[c].sent[2]

\* a connection skipped a publication
C8_Witness ==
  \E c \in Conns :
    /\ Len(conns[c].sent) = 2
    /\ conns[c].sent[2] >= conns[c].sent[1] + 2

(* ----------------------------------------------------------------------- *)
(* C9: while the actor is not cancelled every submitted command is         *)
(* eventually answered, and an answer in a connection's response slot is   *)
(* the result of applying the command that connection is waiting for.      *)
(* ----------------------------------------------------------------------- *)
AwaitsResponse(c) == conns[c].pc \in {"waiting", "closing"} /\ conns[c].resp = None

AnswerIsOwn(c) ==
  conns[c].resp # None =>
    /\ conns[c].pc \in {"waiting", "closing"}
    /\ hist.expect[c] # None
    /\ hist.expect[c][1].ticket = conns[c].ticket
    /\ hist.expect[c][1].response = conns[c].resp[1]

C9_EveryCommandAnswered ==
  /\ \A c \in Conns : AwaitsResponse(c) ~> (conns[c].resp # None \/ cancelled)
  /\ [](\A c \in Conns : AnswerIsOwn(c))

\* an accepted command's snapshot arrived while another connection waits
C9_Witness ==
  \E c, d \in Conns :
    /\ conns[c].resp # None
    /\ conns[c].resp[1].res = "Ok"
    /\ AwaitsResponse(d)

(* ----------------------------------------------------------------------- *)
(* C10 (as claimed): after cancellation nothing is applied to the game,    *)
(* journaled or published.                                                 *)
(* ----------------------------------------------------------------------- *)
C10_NothingAfterCancel ==
  [][cancelled => (game' = game /\ journal' = journal /\ out' = out)]_vars

(* C10 (amended): after cancellation the actor loop returns, and once it   *)
(* has returned nothing is applied, journaled or published; a command that *)
(* was queued at cancellation may still be handled before the return.      *)
C10_ReturnsAndThenNothing ==
  /\ cancelled ~> actor.pc = "returned"
  /\ [][actor.pc = "returned" =>
          (game' = game /\ journal' = journal /\ out' = out /\ actor' = actor)]_vars

\* the loop returned on cancellation and left a command in the queue
C10_Witness ==
  /\ cancelled
  /\ actor.pc = "returned"
  /\ in_q # <<>>

(* ----------------------------------------------------------------------- *)
(* C11: every command that was in the queue when cancellation was          *)
(* signalled has been dequeued, applied and answered when the actor loop   *)
(* returns: at the return no such command is left in the queue.            *)
(* ----------------------------------------------------------------------- *)
QueuedAtCancel(m) == hist.at_cancel # None /\ m.ticket <= hist.at_cancel[1]

C11_QueuedAtCancelDrained ==
  actor.pc = "returned" =>
    /\ \A i \in 1..Len(in_q) : ~QueuedAtCancel(in_q[i])
    /\ \A c \in Conns :
         (conns[c].pc \in {"waiting", "closing"} /\ QueuedAtCancel(conns[c]))
           => conns[c].resp # None

(* ----------------------------------------------------------------------- *)
(* C12 (as claimed): over one clue lifecycle in which an answer was        *)
(* judged, from the Pick to the FinishClue that leaves Resolution, the sum *)
(* of all score changes is plus or minus the clue's value, applied once.   *)
(* ----------------------------------------------------------------------- *)
\* the phases that carry a clue handle
CluePhases == {"Waging", "Clue", "Buzzing", "Buzzed", "Resolution"}

InLifecycle == game.phase.tag \in CluePhases

LifecycleDelta(g) == SumPoints(g.contestants) - hist.base

HasClues(board) == \E c \in 1..Len(board) : Len(board[c]) > 0

C13_AllSolvedEndsInScore ==
  (HasClues(game.board) /\ AllSolved(game.board)
   /\ game.phase.tag \notin {"Preparing", "Connecting"}) =>
    /\ \A clue \in ClueHandles : pick(game, clue).res # "Ok"
    /\ game.phase.tag # "Score" =>
         \A rnd \in Entropy :
           LET r == finish_clue(game, rnd) IN
           r.res = "Ok" /\ r.game.phase = Score

(* ----------------------------------------------------------------------- *)
(* C16: a solved clue is never played again: no reachable sequence of      *)
(* commands puts a clue whose solved flag is true into the Clue phase.     *)
(* ----------------------------------------------------------------------- *)
C16_SolvedClueNeverPlayed ==
  game.phase.tag = "Clue" => ~BoardGet(game.board, game.phase.clue).solved

(* ----------------------------------------------------------------------- *)
(* C17: every transition that enters a phase carrying a clue handle        *)
(* (Waging, Clue, Buzzing, Buzzed, Resolution) does so for a clue that     *)
(* exists in the loaded board and is unsolved when the transition is       *)
(* taken.                                                                  *)
(* ----------------------------------------------------------------------- *)
C17_EnteredWithUnsolvedClue ==
  [][ (game'.phase.tag \in CluePhases /\ game'.phase.tag # game.phase.tag) =>
        /\ ClueExists(game.board, game'.phase.clue)
        /\ ~BoardGet(game.board, game'.phase.clue).solved
    ]_vars

(* ----------------------------------------------------------------------- *)
(* C14: the commands of tests::it_works, given in order to a fresh game,   *)
(* are all accepted and leave the game in Score with every clue solved and *)
(* exactly one contestant, who carries the given name.                     *)
(* ----------------------------------------------------------------------- *)
C14_ItWorksIsAccepted ==
  hist.n = Len(it_works) =>
    /\ hist.ok
    /\ game.phase = Score
    /\ HasClues(game.board) /\ AllSolved(game.board)
    /\ Len(game.contestants) = 1
    /\ game.contestants[1].name = Some(EvNameContestant(0).name)

(* ----------------------------------------------------------------------- *)
(* C15: in a finished game with one contestant in which one clue was       *)
(* answered with a single RejectAnswer and every other clue with a single  *)
(* AcceptAnswer, the contestant's score is the sum of the values of the    *)
(* accepted clues minus the value of the rejected clue.                    *)
(* ----------------------------------------------------------------------- *)
RECURSIVE ValueOf(_)
ValueOf(clues) ==
  IF clues = {} THEN 0
  ELSE LET clue == CHOOSE x \in clues : TRUE
       IN BoardGet(game.board, clue).points + ValueOf(clues \ {clue})

AcceptedClues == {clue \in TestClueHandles : hist.plays[clue] = [acc |-> 1, rej |-> 0]}
RejectedClues == {clue \in TestClueHandles : hist.plays[clue] = [acc |-> 0, rej |-> 1]}

OneRejectedRestAccepted ==
  /\ game.phase = Score
  /\ Len(game.contestants) = 1
  /\ Cardinality(RejectedClues) = 1
  /\ AcceptedClues \cup RejectedClues = TestClueHandles

AllDisconnected(g) ==
  \A i \in 1..Len(g.contestants) : ~g.contestants[i].connected

C18_StartsDisconnected ==
  /\ hist.accepted = <<>> => AllDisconnected(game)
  /\ out.version = 0 => AllDisconnected(out.value)

\* the server restarted on a journal that left a contestant connected
C18_Witness ==
  /\ hist.restarts = 1
  /\ hist.accepted = <<>>
  /\ out.version = 0
  /\ hist.live # None
  /\ \E i \in 1..Len(game.contestants) : hist.live[1].contestants[i].connected
  /\ \E i \in 1..Len(journal) : journal[i].type = "ReconnectContestant"

(* ----------------------------------------------------------------------- *)
(* C19: in Preparing LoadBoard(b) is always accepted, the board is then    *)
(* exactly b whatever was loaded before, the phase stays Preparing, and    *)
(* LoadBoard(a) followed by LoadBoard(b) gives the same game as            *)
(* LoadBoard(b) alone.                                                     *)
(* ----------------------------------------------------------------------- *)
C19_LoadBoardReplaces ==
  game.phase = Preparing =>
    \A a, b \in Boards :
      LET ra == load_board(game, a)
          rb == load_board(game, b)
      IN /\ rb.res = "Ok"
         /\ rb.game.board = b
         /\ rb.game.phase = Preparing
         /\ rb.game.contestants = game.contestants
         /\ ra.res = "Ok"
         /\ load_board(ra.game, b) = rb

\* a board with clues is loaded and the game is still being prepared
C19_Witness ==
  /\ game.phase = Preparing
  /\ last = [type |-> "LoadBoard", res |-> "Ok"]
  /\ HasClues(game.board)

(* ----------------------------------------------------------------------- *)
(* C20: the registry of contestants is append-only: it grows by exactly    *)
(* one, only by a ConnectContestant accepted in Connecting, which appends  *)
(* a contestant with score 0, indicate = false, connected = true at the    *)
(* next index and leaves the others as they were; no step shortens it, and *)
(* outside Preparing and Connecting its length never changes.              *)
(* ----------------------------------------------------------------------- *)
C20_RegistryAppendOnly ==
  [][ LET old == game.contestants
          new == game'.contestants
      IN /\ Len(new) \in {Len(old), Len(old) + 1}
         /\ Len(new) = Len(old) + 1 =>
              /\ game.phase = Connecting
              /\ last' = [type |-> "ConnectContestant", res |-> "Ok"]
              /\ SubSeq(new, 1, Len(old)) = old
              /\ new[Len(new)] = [name |-> None, name_hint |-> EvConnectContestant.name_hint,
                                  points |-> 0, indicate |-> FALSE, connected |-> TRUE]
         /\ last' = [type |-> "ConnectContestant", res |-> "Ok"] =>
              (game.phase = Connecting /\ Len(new) = Len(old) + 1)
         /\ game.phase.tag \notin {"Preparing", "Connecting"} =>
              (Len(new) = Len(old) /\ game'.phase.tag \notin {"Preparing", "Connecting"})
    ]_vars

\* a second contestant registered after the first one had lit their buzzer
C20_Witness ==
  /\ last = [type |-> "ConnectContestant", res |-> "Ok"]
  /\ Len(game.contestants) = 2
  /\ game.contestants[1].indicate
  /\ ~game.contestants[2].indicate

(* ----------------------------------------------------------------------- *)
(* C21: DisconnectContestant{c} and ReconnectContestant{c} with an         *)
(* existing handle c are accepted in every phase and change only           *)
(* contestant c's connected flag (to false, respectively true): the phase, *)
(* the board, every score, every indicate flag and every other contestant  *)
(* are unchanged; a disconnect of the buzzed contestant during Buzzed      *)
(* leaves the phase Buzzed.                                                *)
(* ----------------------------------------------------------------------- *)
C21_ConnectionFlagOnly ==
  \A c \in Handles : \A up \in BOOLEAN :
    ContestantExists(game, c) =>
      LET r == apply(game, IF up THEN EvReconnectContestant(c)
                                 ELSE EvDisconnectContestant(c), 0)
      IN /\ r.res = "Ok"
         /\ r.game.phase = game.phase
         /\ r.game.board = game.board
         /\ Len(r.game.contestants) = Len(game.contestants)
         /\ r.game.contestants[c + 1].connected = up
         /\ \A i \in 1..Len(game.contestants) :
              LET old == game.contestants[i]
                  new == r.game.contestants[i]
              IN /\ new.points = old.points
                 /\ new.indicate = old.indicate
                 /\ new.name = old.name
                 /\ new.name_hint = old.name_hint
                 /\ i # c + 1 => new.connected = old.connected

\* the buzzed contestant was disconnected and the phase is still Buzzed
C21_Witness ==
  /\ last = [type |-> "DisconnectContestant", res |-> "Ok"]
  /\ game.phase.tag = "Buzzed"
  /\ game.phase.contestant = 0
  /\ game.contestants[1].indicate
  /\ ~game.contestants[1].connected

(* ----------------------------------------------------------------------- *)
(* C22: Buzz{c} with an existing handle c in Connecting or Score flips     *)
(* only contestant c's indicate flag: the phase, the board, all scores and *)
(* all other contestants' flags are unchanged, and two consecutive such    *)
(* Buzz{c} restore the original state.                                     *)
(* ----------------------------------------------------------------------- *)
C22_BuzzTogglesLight ==
  game.phase.tag \in {"Connecting", "Score"} =>
    \A c \in Handles :
      ContestantExists(game, c) =>
        LET r == apply(game, EvBuzz(c), 0)
        IN /\ r.res = "Ok"
           /\ r.game.phase = game.phase
           /\ r.game.board = game.board
           /\ Len(r.game.contestants) = Len(game.contestants)
           /\ r.game.contestants[c + 1].indicate = ~game.contestants[c + 1].indicate
           /\ \A i \in 1..Len(game.contestants) :
                LET old == game.contestants[i]
                    new == r.game.contestants[i]
                IN /\ new.points = old.points
                   /\ new.connected = old.connected
                   /\ new.name = old.name
                   /\ new.name_hint = old.name_hint
                   /\ i # c + 1 => new.indicate = old.indicate
           /\ apply(r.game, EvBuzz(c), 0) = Ok(game)

\* at the end of a match both contestants have their light on
C22_Witness ==
  /\ last = [type |-> "Buzz", res |-> "Ok"]
  /\ game.phase = Score
  /\ Len(game.contestants) = 2
  /\ game.contestants[1].indicate
  /\ game.contestants[2].indicate

(* ----------------------------------------------------------------------- *)
(* C23: StartGame in Connecting with an empty registry is rejected with    *)
(* NoContestants; with a non-empty registry it is accepted, the phase      *)
(* becomes Picking{contestant} where contestant is the handle of a         *)
(* registered contestant, and every contestant's indicate flag is false    *)
(* afterwards.                                                             *)
(* ----------------------------------------------------------------------- *)
C23_StartGame ==
  game.phase = Connecting =>
    \A rnd \in Entropy :
      LET r == apply(game, EvStartGame, rnd)
      IN IF game.contestants = <<>>
           THEN r.res = "NoContestants" /\ r.game = game
           ELSE /\ r.res = "Ok"
                /\ r.game.phase.tag = "Picking"
                /\ r.game.phase.contestant \in 0..(Len(game.contestants) - 1)
                /\ r.game.board = game.board
                /\ Len(r.game.contestants) = Len(game.contestants)
                /\ \A i \in 1..Len(game.contestants) :
                     /\ ~r.game.contestants[i].indicate
                     /\ r.game.contestants[i] =
                          [game.contestants[i] EXCEPT !.indicate = FALSE]

\* a game of two was started and the second contestant picks first
C23_Witness ==
  /\ last = [type |-> "StartGame", res |-> "Ok"]
  /\ game.phase = Picking(1)
  /\ Len(game.contestants) = 2

C25_WagerClueEntersWaging ==
  [][ (game.phase.tag = "Picking" /\ last' = [type |-> "Pick", res |-> "Ok"]) =>
        LET clue == game'.phase.clue
            picker == game.phase.contestant
        IN IF BoardGet(game.board, clue).can_wager
             THEN /\ game'.phase = Waging(clue, picker)
                  /\ apply(game', EvSetWage, 0) =
                       Ok([game' EXCEPT !.phase = Clue(clue, Some(picker))])
             ELSE game'.phase.tag = "Clue"
    ]_vars

(* ----------------------------------------------------------------------- *)
(* C26: ClueFullyShown in Clue{clue, exclusive: None} moves to             *)
(* Buzzing{clue}; in Clue{clue, exclusive: Some(p)} it moves directly to   *)
(* Buzzed{clue, contestant: p}.  So for a clue whose exclusive attribute   *)
(* is true the first contestant to reach Buzzed is the one who picked it,  *)
(* and nobody can buzz before that attempt is accepted, rejected or        *)
(* finished.                                                               *)
(* ----------------------------------------------------------------------- *)
C26_ExclusiveGoesToPicker ==
  [][ LET ph == game.phase
          ph2 == game'.phase
      IN /\ ph.tag = "Clue" =>
              /\ (ph.exclusive # None) = BoardGet(game.board, ph.clue).exclusive
              /\ apply(game, EvClueFullyShown, 0) =
                   Ok([game EXCEPT !.phase =
                         IF ph.exclusive = None THEN Buzzing(ph.clue)
                         ELSE Buzzed(ph.clue, ph.exclusive[1])])
         /\ last' = [type |-> "ClueFullyShown", res |-> "Ok"] =>
              /\ ph.tag = "Clue"
              /\ ph2.tag = (IF ph.exclusive = None THEN "Buzzing" ELSE "Buzzed")
         \* the holder of an exclusive clue is the contestant who picked it
         /\ (ph.tag = "Picking" /\ ph2.tag = "Clue"
               /\ BoardGet(game.board, ph2.clue).exclusive) =>
              ph2.exclusive = Some(ph.contestant)
         \* an exclusive clue leaves Clue towards its holder only
         /\ (ph.tag = "Clue" /\ ph.exclusive # None) =>
              ph2 \in {ph, Buzzed(ph.clue, ph.exclusive[1]),
                       Resolution(ph.clue, ph.exclusive[1], FALSE)}
         \* an attempt ends by being rejected, accepted or finished
         /\ ph.tag = "Buzzed" =>
              ph2 \in {ph, Buzzing(ph.clue), Resolution(ph.clue, ph.contestant, FALSE)}
         \* and until then nobody buzzes
         /\ ph.tag \in {"Clue", "Buzzed"} =>
              \A c \in Handles : apply(game, EvBuzz(c), 0) = WrongPhase(game, game)
         \* open buzzing for an exclusive clue comes after an attempt only
         /\ (ph2.tag = "Buzzing" /\ ph.tag # "Buzzing"
               /\ BoardGet(game'.board, ph2.clue).exclusive) =>
              ph.tag = "Buzzed"
    ]_vars

\* the daily double was shown and its picker, the second contestant, answers
C26_Witness ==
  /\ last = [type |-> "ClueFullyShown", res |-> "Ok"]
  /\ game.phase = Buzzed(<<0, 1>>, 1)
  /\ BoardGet(game.board, <<0, 1>>).exclusive
  /\ Len(game.contestants) = 2

(* ----------------------------------------------------------------------- *)
(* C27: Buzz{c} in Buzzing{clue} sets contestant c's indicate flag to      *)
(* true, sets every other contestant's indicate flag to false, and moves   *)
(* the phase to Buzzed{clue, contestant: c}; scores, connected flags and   *)
(* the board are unchanged.                                                *)
(* ----------------------------------------------------------------------- *)
C27_BuzzInBuzzing ==
  game.phase.tag = "Buzzing" =>
    \A c \in Handles :
      LET r == apply(game, EvBuzz(c), 0)
      IN /\ r.res = "Ok"
         /\ r.game.phase = Buzzed(game.phase.clue, c)
         /\ r.game.board = game.board
         /\ Len(r.game.contestants) = Len(game.contestants)
         /\ \A i \in 1..Len(game.contestants) :
              LET old == game.contestants[i]
                  new == r.game.contestants[i]
              IN /\ new.indicate = (i = c + 1)
                 /\ new.points = old.points
                 /\ new.connected = old.connected
                 /\ new.name = old.name
                 /\ new.name_hint = old.name_hint

\* the second contestant buzzed in; the first one's light is off
C27_Witness ==
  /\ last = [type |-> "Buzz", res |-> "Ok"]
  /\ game.phase.tag = "Buzzed"
  /\ game.phase.contestant = 1
  /\ Len(game.contestants) = 2
  /\ game.contestants[2].indicate
  /\ ~game.contestants[1].indicate

(* ----------------------------------------------------------------------- *)
(* C28: in every reachable state whose phase is Buzzed{clue, contestant}   *)
(* the contestant named in the phase has indicate = true and no other      *)
(* contestant has; in every phase from Picking through Resolution at most  *)
(* one contestant is indicated.                                            *)
(* ----------------------------------------------------------------------- *)
C28_BuzzedIsIndicated ==
  /\ game.phase.tag = "Buzzed" =>
       /\ ContestantExists(game, game.phase.contestant)
       /\ \A i \in 1..Len(game.contestants) :
            game.contestants[i].indicate = (i = game.phase.contestant + 1)
  /\ game.phase.tag \in {"Picking", "Waging", "Clue", "Buzzing", "Buzzed", "Resolution"} =>
       Cardinality({i \in 1..Len(game.contestants) : game.contestants[i].indicate}) <= 1

(* ----------------------------------------------------------------------- *)
(* C29: AcceptAnswer in Buzzed{clue, c} adds the clue's point value to     *)
(* contestant c's score, sets c's indicate flag to false, changes no other *)
(* contestant's score, and moves the phase to                              *)
(* Resolution{clue, contestant: c, show_hint: false}.                      *)
(* ----------------------------------------------------------------------- *)
C29_AcceptAnswer ==
  game.phase.tag = "Buzzed" =>
    LET r == apply(game, EvAcceptAnswer, 0)
        c == game.phase.contestant
        clue == game.phase.clue
    IN /\ r.res = "Ok"
       /\ r.game.phase = Resolution(clue, c, FALSE)
       /\ r.game.board = game.board
       /\ ContestantExists(game, c)
       /\ Len(r.game.contestants) = Len(game.contestants)
       /\ ~r.game.contestants[c + 1].indicate
       /\ \A i \in 1..Len(game.contestants) :
            r.game.contestants[i].points =
              game.contestants[i].points
                + (IF i = c + 1 THEN BoardGet(game.board, clue).points ELSE 0)

(* ----------------------------------------------------------------------- *)
(* C30: RejectAnswer in Buzzed{clue, c} subtracts the clue's point value   *)
(* from contestant c's score (which may become negative), sets c's         *)
(* indicate flag to false, and returns the phase to Buzzing{clue} for the  *)
(* same clue, so that buzzing is reopened for the remaining contestants    *)
(* (those other than c).                                                   *)
(* ----------------------------------------------------------------------- *)
C30_RejectAnswer ==
  game.phase.tag = "Buzzed" =>
    LET r == apply(game, EvRejectAnswer, 0)
        c == game.phase.contestant
        clue == game.phase.clue
    IN /\ r.res = "Ok"
       /\ r.game.phase = Buzzing(clue)
       /\ r.game.board = game.board
       /\ ContestantExists(game, c)
       /\ Len(r.game.contestants) = Len(game.contestants)
       /\ ~r.game.contestants[c + 1].indicate
       /\ \A i \in 1..Len(game.contestants) :
            r.game.contestants[i].points =
              game.contestants[i].points
                - (IF i = c + 1 THEN BoardGet(game.board, clue).points ELSE 0)
       /\ \A d \in Handles :
            (ContestantExists(game, d) /\ d # c) =>
              apply(r.game, EvBuzz(d), 0).game.phase = Buzzed(clue, d)

C32_ScoreIsTerminal ==
  game.phase = Score =>
    \A event \in Events : \A rnd \in EntropyFor(event) :
      LET r == apply(game, event, rnd)
      IN /\ r.game.phase = Score
         /\ r.game.board = game.board
         /\ Len(r.game.contestants) = Len(game.contestants)
         /\ event.type \notin {"AwardPoints", "RevokePoints"} =>
              \A i \in 1..Len(game.contestants) :
                r.game.contestants[i].points = game.contestants[i].points
         /\ event.type \in {"Pick", "StartGame", "LoadBoard", "ConnectContestant",
                            "FinishClue"} =>
              r = WrongPhase(game, game)

\* a command was refused because the match is over
C32_Witness ==
  /\ game.phase = Score
  /\ last = [type |-> "rejected", res |-> "WrongPhase", is |-> Score]

(* ----------------------------------------------------------------------- *)
(* C33: Settings is handled like every other command: in Preparing it is   *)
(* accepted (and may be repeated) and yields a snapshot, in every other    *)
(* phase it is rejected with WrongPhase; applying it never aborts the game *)
(* or the actor.                                                           *)
(* ----------------------------------------------------------------------- *)
C33_SettingsIsHandled ==
  LET r == apply(game, EvSettings, 0)
  IN /\ r.res # "Panic"
     /\ IF game.phase = Preparing
          THEN r.res = "Ok" /\ apply(r.game, EvSettings, 0).res = "Ok"
          ELSE r = WrongPhase(game, game)

(* ----------------------------------------------------------------------- *)
(* C34: the phase machine is deadlock-free: in every reachable state whose *)
(* phase is not Score there is a command that is accepted and changes the  *)
(* phase (in the lobby: after a contestant has registered), so a started   *)
(* game can always be driven on towards Score, also when the loaded board  *)
(* has no categories or no clues.                                          *)
(* ----------------------------------------------------------------------- *)
C34_DeadlockFree ==
  game.phase # Score =>
    \E event \in Events : \E rnd \in EntropyFor(event) :
      LET r == apply(game, event, rnd)
      IN /\ r.res = "Ok"
         /\ \/ r.game.phase # game.phase
            \/ \E next \in Events : \E rnd2 \in EntropyFor(next) :
                 LET r2 == apply(r.game, next, rnd2)
                 IN r2.res = "Ok" /\ r2.game.phase # game.phase

(* ----------------------------------------------------------------------- *)
(* C37: in every reachable state every contestant handle carried by the    *)
(* phase (Picking.contestant, Waging.contestant, Clue.exclusive,           *)
(* Buzzed.contestant, Resolution.contestant) indexes a registered          *)
(* contestant; in particular Buzz{c} in Buzzing with a handle c that names *)
(* no contestant is rejected with ContestantNotFound instead of entering   *)
(* Buzzed{c}.                                                              *)
(* ----------------------------------------------------------------------- *)
C37_PhaseHandlesRegistered ==
  /\ game.phase.tag \in {"Picking", "Waging", "Buzzed", "Resolution"} =>
       ContestantExists(game, game.phase.contestant)
  /\ (game.phase.tag = "Clue" /\ game.phase.exclusive # None) =>
       ContestantExists(game, game.phase.exclusive[1])
  /\ game.phase.tag = "Buzzing" =>
       \A c \in Handles :
         ~ContestantExists(game, c) =>
           apply(game, EvBuzz(c), 0) = Err("ContestantNotFound", game)

(* ----------------------------------------------------------------------- *)
(* C38: scores change only through AcceptAnswer, RejectAnswer, AwardPoints *)
(* and RevokePoints: every other command, and in particular FinishClue     *)
(* from Clue, Buzzing, Buzzed or Resolution, leaves every contestant's     *)
(* score unchanged; AwardPoints{c, n} and RevokePoints{c, n} change only   *)
(* contestant c's score, by +n and -n, in any phase, without changing the  *)
(* phase.                                                                  *)
(* ----------------------------------------------------------------------- *)
C38_ScoresChangeByFourCommands ==
  \A event \in Events : \A rnd \in EntropyFor(event) :
    LET r == apply(game, event, rnd)
        same(i) == r.game.contestants[i].points = game.contestants[i].points
    IN /\ event.type \notin {"AcceptAnswer", "RejectAnswer", "AwardPoints", "RevokePoints"} =>
            \A i \in 1..Len(game.contestants) : same(i)
       /\ r.res # "Ok" => r.game = game
       /\ event.type \in {"AwardPoints", "RevokePoints"} =>
            LET c == event.contestant
                n == IF event.type = "AwardPoints" THEN event.points ELSE 0 - event.points
            IN IF ~ContestantExists(game, c) THEN r = Err("ContestantNotFound", game)
               ELSE /\ r.res = "Ok"
                    /\ r.game.phase = game.phase
                    /\ r.game.board = game.board
                    /\ Len(r.game.contestants) = Len(game.contestants)
                    /\ \A i \in 1..Len(game.contestants) :
                         r.game.contestants[i] =
                           IF i = c + 1
                           THEN [game.contestants[i] EXCEPT !.points = @ + n]
                           ELSE game.contestants[i]

\* the moderator took a point from the first contestant while the second answers
C38_Witness ==
  /\ last = [type |-> "RevokePoints", res |-> "Ok"]
  /\ game.phase.tag = "Buzzed"
  /\ Len(game.contestants) = 2
  /\ game.contestants[1].points = 0 - 1
  /\ game.contestants[2].points = 0

C35_EndedConnectionDisconnects ==
  [][ \A c \in Conns :
        \* the end of the loop: one command for the bound contestant, or none
        /\ (conns[c].pc = "loop" /\ conns'[c].pc \in {"closing", "done"}) =>
             IF conns[c].controlling = None
               THEN conns'[c].pc = "done" /\ in_q' = in_q
               ELSE /\ conns'[c].pc = "closing"
                    /\ Len(in_q') = Len(in_q) + 1
                    /\ in_q'[Len(in_q')].event =
                         EvDisconnectContestant(conns[c].controlling[1])
                    /\ in_q'[Len(in_q')].from = c
        \* nothing else is submitted by a connection that has ended
        /\ (conns[c].pc \in {"closing", "done"} /\ Len(in_q') > Len(in_q)) =>
             in_q'[Len(in_q')].from # c
        \* the actor applies it: the contestant is disconnected
        /\ (conns[c].pc = "closing" /\ actor.pc = "select"
              /\ actor'.pc \notin {"select", "returned"} /\ actor'.from = c) =>
             /\ actor'.pc = "applied"
             /\ actor'.event = EvDisconnectContestant(conns[c].controlling[1])
             /\ ContestantExists(game', conns[c].controlling[1])
             /\ ~game'.contestants[conns[c].controlling[1] + 1].connected
    ]_vars

(* ----------------------------------------------------------------------- *)
(* C36: when a connection's ConnectContestant command is accepted, the     *)
(* handle the connection records as the one it controls is the handle of   *)
(* the contestant that this very command appended to the registry, also    *)
(* when other connections register concurrently.                           *)
(* ----------------------------------------------------------------------- *)
C36_ControlsOwnContestant ==
  [][ \A c \in Conns :
        (/\ conns[c].pc = "waiting"
         /\ conns[c].event.type = "ConnectContestant"
         /\ conns[c].resp # None
         /\ conns[c].resp[1].res = "Ok"
         /\ conns'[c].pc = "loop") =>
          \* the command appended the last contestant of the game it returned
          conns'[c].controlling = Some(Len(conns[c].resp[1].state.contestants) - 1)
    ]_vars

(* ----------------------------------------------------------------------- *)
(* C40: replaying a journal written by the actor never fails: every        *)
(* command the live actor accepted and journaled, across restarts that     *)
(* append to the same journal, is accepted again when the journal is       *)
(* applied in order to a fresh Game, so startup from an actor-written      *)
(* journal always succeeds.                                                *)
(* ----------------------------------------------------------------------- *)
C40_ReplayNeverFails ==
  /\ actor.pc # "failed"
  /\ \A r \in Replay(NewGame, journal) : r.res = "Ok"

\* the server was restarted on a journal that its first run had extended,
\* and the second run has journaled a command of its own
C40_Witness ==
  /\ hist.restarts = 1
  /\ hist.start \notin StartLengths
  /\ Len(journal) = hist.start + 1
  /\ actor.pc = "returned"

====
